---- MODULE Spec2Model ----
(***************************************************************************)
(* Model of src/etl_pipeline.py: a three-stage pipeline that reads a CSV   *)
(* file through the GitHub contents API, converts it to JSON and writes    *)
(* the result back through the same API.                                   *)
(*                                                                         *)
(* Text is a sequence of one-character strings; "\n" is the line feed and  *)
(* "NUL" stands for the character U+0000.  Bytes are naturals below 256.   *)
(***************************************************************************)
EXTENDS Integers, Sequences, FiniteSets, TLC

VARIABLES
    pc,             \* position of run_etl_pipeline
    src,            \* the source file in the remote store (bytes) or NoFile
    dest,           \* the destination file in the remote store (bytes) or NoFile
    dest0,          \* the destination file when the run started
    csv_data,       \* run_etl_pipeline's local: the extracted text
    json_data,      \* run_etl_pipeline's local: the transformed text
    check_response, \* load_json_to_github's local: the answer to the existence check
    payload,        \* load_json_to_github's local: the body of the PUT request
    response,       \* load_json_to_github's local: the answer to the PUT request
    result,         \* what load_json_to_github returned
    read_response,  \* extract_csv_from_github's local: the answer to the source read
    raised,         \* the exception a stage raised, or NoValue
    outcome,        \* what the run reported at its end
    reqs,           \* every HTTP request issued so far, in order
    stages,         \* the stages invoked so far, in order
    actorWrites,    \* modifications by another actor between check and write
    header,         \* a table given to the parser: its column names
    rows,           \* a table given to the parser: its data rows
    csv_text,       \* the table as delimited text
    records         \* what parse_csv made of csv_text

vars == <<pc, src, dest, dest0, csv_data, json_data, check_response, payload,
          response, result, read_response, raised, outcome, reqs, stages, actorWrites,
          header, rows, csv_text, records>>

runVars == <<pc, src, dest, dest0, csv_data, json_data, check_response, payload,
             response, result, read_response, raised, outcome, reqs, stages, actorWrites>>

tableVars == <<header, rows, csv_text, records>>

\* ------------------------------------------------------------------ bounds

\* longest source file, in bytes
MaxSrcLen == 3

\* most modifications another actor makes between the check and the write
MaxActorWrites == 2

\* most columns and most data rows of a table given to the parser
MaxCols == 2

MaxRows == 2

\* ------------------------------------------------------------ plain values

NoValue == [t |-> "none"]

Value(v) == [t |-> "value", v |-> v]

NoFile == [t |-> "absent"]

File(bytes) == [t |-> "file", bytes |-> bytes]

RECURSIVE Concat(_)
\* the concatenation of a sequence of sequences
Concat(ss) == IF ss = <<>> THEN <<>> ELSE Head(ss) \o Concat(Tail(ss))

RECURSIVE Join(_, _)
\* sep.join(parts)
Join(sep, parts) ==
    IF parts = <<>> THEN <<>>
    ELSE IF Len(parts) = 1 THEN parts[1]
    ELSE parts[1] \o sep \o Join(sep, Tail(parts))

\* the position of the first c in s, or 0
IndexOf(s, c) ==
    IF \E i \in 1..Len(s) : s[i] = c
    THEN CHOOSE i \in 1..Len(s) : s[i] = c /\ \A j \in 1..(i - 1) : s[j] # c
    ELSE 0

RECURSIVE Split(_, _)
\* s.split(c): the pieces of s between occurrences of c (always at least one)
Split(s, c) ==
    LET i == IndexOf(s, c)
    IN  IF i = 0 THEN <<s>>
        ELSE <<SubSeq(s, 1, i - 1)>> \o Split(SubSeq(s, i + 1, Len(s)), c)

\* ---------------------------------------------------------- text encodings

\* the characters the model writes, with their code points
CodePoints ==
    [c \in {"NUL", "\n", " ", "\"", ",", "0", ":", "[", "\\", "]",
            "a", "b", "l", "n", "u", "{", "}"} |->
        CASE c = "NUL" -> 0   [] c = "\n" -> 10 [] c = " " -> 32  [] c = "\"" -> 34
          [] c = "," -> 44    [] c = "0" -> 48  [] c = ":" -> 58  [] c = "[" -> 91
          [] c = "\\" -> 92   [] c = "]" -> 93  [] c = "a" -> 97  [] c = "b" -> 98
          [] c = "l" -> 108   [] c = "n" -> 110 [] c = "u" -> 117 [] c = "{" -> 123
          [] c = "}" -> 125]

\* str.encode('utf-8') on the characters above (all below U+0080: one byte each)
Utf8Encode(text) == [i \in 1..Len(text) |-> CodePoints[text[i]]]

\* whether bytes.decode('utf-8') accepts the bytes; the model's bytes are either
\* below 128 (a one-byte character) or 255, which no UTF-8 sequence contains
Utf8Valid(bytes) == \A i \in 1..Len(bytes) : bytes[i] < 128

\* bytes.decode('utf-8') of valid bytes
Utf8Decode(bytes) ==
    [i \in 1..Len(bytes) |-> CHOOSE c \in DOMAIN CodePoints : CodePoints[c] = bytes[i]]

B64Alphabet ==
    << "A","B","C","D","E","F","G","H","I","J","K","L","M","N","O","P",
       "Q","R","S","T","U","V","W","X","Y","Z","a","b","c","d","e","f",
       "g","h","i","j","k","l","m","n","o","p","q","r","s","t","u","v",
       "w","x","y","z","0","1","2","3","4","5","6","7","8","9","+","/" >>

B64Char(v) == B64Alphabet[v + 1]

B64Value(c) == (CHOOSE i \in 1..Len(B64Alphabet) : B64Alphabet[i] = c) - 1

RECURSIVE B64Encode(_)
\* base64.b64encode: three bytes become four characters, the tail is padded
B64Encode(bytes) ==
    IF bytes = <<>> THEN <<>>
    ELSE IF Len(bytes) = 1 THEN
        LET n == bytes[1] * 65536
        IN  <<B64Char(n \div 262144), B64Char((n \div 4096) % 64), "=", "=">>
    ELSE IF Len(bytes) = 2 THEN
        LET n == bytes[1] * 65536 + bytes[2] * 256
        IN  <<B64Char(n \div 262144), B64Char((n \div 4096) % 64),
              B64Char((n \div 64) % 64), "=">>
    ELSE
        LET n == bytes[1] * 65536 + bytes[2] * 256 + bytes[3]
        IN  <<B64Char(n \div 262144), B64Char((n \div 4096) % 64),
              B64Char((n \div 64) % 64), B64Char(n % 64)>>
            \o B64Encode(SubSeq(bytes, 4, Len(bytes)))

\* whether base64.b64decode accepts the text: whole groups of four characters
\* of the alphabet, padding only at the end of the last group
B64Valid(text) ==
    /\ Len(text) % 4 = 0
    /\ \A i \in 1..Len(text) :
          \/ \E k \in 1..Len(B64Alphabet) : B64Alphabet[k] = text[i]
          \/ text[i] = "=" /\ i > Len(text) - 2 /\ \A j \in i..Len(text) : text[j] = "="

RECURSIVE B64Decode(_)
\* base64.b64decode of valid text
B64Decode(text) ==
    IF text = <<>> THEN <<>>
    ELSE
        LET v(i) == IF text[i] = "=" THEN 0 ELSE B64Value(text[i])
            n == v(1) * 262144 + v(2) * 4096 + v(3) * 64 + v(4)
            b == <<n \div 65536, (n \div 256) % 256, n % 256>>
            k == IF text[3] = "=" THEN 1 ELSE IF text[4] = "=" THEN 2 ELSE 3
        IN  SubSeq(b, 1, k) \o B64Decode(SubSeq(text, 5, Len(text)))

\* encode_content = lambda content: base64.b64encode(content.encode('utf-8')).decode('utf-8')
encode_content(content) == B64Encode(Utf8Encode(content))

\* whether decode_content returns rather than raising binascii.Error or
\* UnicodeDecodeError
decode_ok(content) == B64Valid(content) /\ Utf8Valid(B64Decode(content))

\* decode_content = lambda content: base64.b64decode(content).decode('utf-8')
decode_content(content) == Utf8Decode(B64Decode(content))

\* ------------------------------------------------------------ Python values

PyNone == [t |-> "None"]

PyStr(s) == [t |-> "str", s |-> s]

PyList(items) == [t |-> "list", items |-> items]

\* d[k] = v on a dict kept as the sequence of its items in insertion order: an
\* existing key keeps its place and takes the new value
DictSet(d, k, v) ==
    IF \E i \in 1..Len(d) : d[i].key = k
    THEN [i \in 1..Len(d) |-> IF d[i].key = k THEN [key |-> k, value |-> v] ELSE d[i]]
    ELSE Append(d, [key |-> k, value |-> v])

\* ---------------------------------------------------------------- csv, json

\* the lines io.StringIO(text) yields, without their line feeds
StringIOLines(text) ==
    LET pieces == Split(text, "\n")
    IN  IF pieces[Len(pieces)] = <<>> THEN SubSeq(pieces, 1, Len(pieces) - 1) ELSE pieces

\* the row csv.reader makes of one line (default dialect; no quote character
\* occurs in the model's texts): a blank line is the empty row
ReaderRow(line) == IF line = <<>> THEN <<>> ELSE Split(line, ",")

\* the rows csv.reader(StringIO(text)) yields
ReaderRows(text) ==
    LET lines == StringIOLines(text) IN [i \in 1..Len(lines) |-> ReaderRow(lines[i])]

RECURSIVE ZipDict(_, _, _)
\* dict(zip(fieldnames, row)) for the first n pairs
ZipDict(fieldnames, row, n) ==
    IF n = 0 THEN <<>>
    ELSE DictSet(ZipDict(fieldnames, row, n - 1), PyStr(fieldnames[n]), PyStr(row[n]))

RECURSIVE FillRest(_, _, _)
\* for key in fieldnames[lr:]: d[key] = restval (None)
FillRest(d, fieldnames, from) ==
    IF from > Len(fieldnames) THEN d
    ELSE FillRest(DictSet(d, PyStr(fieldnames[from]), PyNone), fieldnames, from + 1)

\* csv.DictReader.__next__ for one non-blank row: short rows are filled with
\* None, the surplus of long rows goes under the key None
DictRow(fieldnames, row) ==
    LET lf == Len(fieldnames)
        lr == Len(row)
        d  == ZipDict(fieldnames, row, IF lf < lr THEN lf ELSE lr)
    IN  IF lf < lr
        THEN DictSet(d, PyNone, PyList([i \in 1..(lr - lf) |-> PyStr(row[lf + i])]))
        ELSE IF lf > lr THEN FillRest(d, fieldnames, lr + 1)
        ELSE d

\* the rows csv.DictReader turns into records: those after the first, blank
\* rows skipped ("while row == []: row = next(self.reader)")
DataRows(all) == SelectSeq(Tail(all), LAMBDA r : r # <<>>)

\* parse_csv with the records in reverse order
parse_csv_reversed(csv_text_) ==
    LET all == ReaderRows(csv_text_)
        data == IF all = <<>> THEN <<>> ELSE DataRows(all)
    IN  [i \in 1..Len(data) |-> DictRow(all[1], data[Len(data) + 1 - i])]

\* parse_csv = lambda csv_text: list(csv.DictReader(StringIO(csv_text)))
parse_csv(csv_text_) ==
    LET all == ReaderRows(csv_text_)
    IN  IF all = <<>> THEN <<>>
        ELSE LET data == DataRows(all)
             IN  [i \in 1..Len(data) |-> DictRow(all[1], data[i])]

\* json's escape of one character of a string (ensure_ascii)
JsonEscape(c) ==
    CASE c = "\"" -> <<"\\", "\"">>
      [] c = "\\" -> <<"\\", "\\">>
      [] c = "\n" -> <<"\\", "n">>
      [] c = "NUL" -> <<"\\", "u", "0", "0", "0", "0">>
      [] OTHER -> <<c>>

JsonString(s) == <<"\"">> \o Concat([i \in 1..Len(s) |-> JsonEscape(s[i])]) \o <<"\"">>

\* level * 2 spaces
JsonIndent(level) == [i \in 1..(2 * level) |-> " "]

\* a list of strings at the given nesting level
JsonList(items, level) ==
    IF items = <<>> THEN <<"[", "]">>
    ELSE <<"[", "\n">>
         \o Join(<<",", "\n">>,
                 [i \in 1..Len(items) |-> JsonIndent(level + 1) \o JsonString(items[i].s)])
         \o <<"\n">> \o JsonIndent(level) \o <<"]">>

\* a dict key: json writes the key None as "null"
JsonKey(k) == IF k = PyNone THEN JsonString(<<"n", "u", "l", "l">>) ELSE JsonString(k.s)

JsonValue(v, level) ==
    IF v = PyNone THEN <<"n", "u", "l", "l">>
    ELSE IF v.t = "list" THEN JsonList(v.items, level)
    ELSE JsonString(v.s)

JsonDict(d, level) ==
    IF d = <<>> THEN <<"{", "}">>
    ELSE <<"{", "\n">>
         \o Join(<<",", "\n">>,
                 [i \in 1..Len(d) |->
                     JsonIndent(level + 1) \o JsonKey(d[i].key) \o <<":", " ">>
                        \o JsonValue(d[i].value, level + 1)])
         \o <<"\n">> \o JsonIndent(level) \o <<"}">>

\* to_json = lambda data: json.dumps(data, indent=2)
to_json(data) ==
    IF data = <<>> THEN <<"[", "]">>
    ELSE <<"[", "\n">>
         \o Join(<<",", "\n">>,
                 [i \in 1..Len(data) |-> JsonIndent(1) \o JsonDict(data[i], 1)])
         \o <<"\n", "]">>

\* ------------------------------------------------------ the parser on tables

ColumnNames == {<<"a">>, <<"b">>}

CellValues == {<<>>, <<"a">>, <<"b">>}

\* a table written as delimited text: fields joined by commas, one line per row
RenderTable(hdr, rws, finalNewline) ==
    Join(<<"\n">>, [i \in 1..(Len(rws) + 1) |->
                      Join(<<",">>, IF i = 1 THEN hdr ELSE rws[i - 1])])
    \o (IF finalNewline THEN <<"\n">> ELSE <<>>)

InitTable ==
    /\ header = <<>> /\ rows = <<>>
    /\ csv_text = NoValue /\ records = NoValue
    /\ pc = "idle" /\ src = NoFile /\ dest = NoFile /\ dest0 = NoFile
    /\ csv_data = NoValue /\ json_data = NoValue /\ check_response = NoValue
    /\ payload = NoValue /\ response = NoValue /\ result = NoValue
    /\ read_response = NoValue /\ raised = NoValue /\ outcome = NoValue
    /\ reqs = <<>> /\ stages = <<>> /\ actorWrites = 0

AddColumn ==
    /\ records = NoValue /\ rows = <<>> /\ Len(header) < MaxCols
    /\ \E name \in ColumnNames : header' = Append(header, name)
    /\ UNCHANGED <<rows, csv_text, records>> /\ UNCHANGED runVars

AddRow ==
    /\ records = NoValue /\ header # <<>> /\ Len(rows) < MaxRows
    /\ \E row \in [1..Len(header) -> CellValues] : rows' = Append(rows, row)
    /\ UNCHANGED <<header, csv_text, records>> /\ UNCHANGED runVars

ParseTable ==
    /\ records = NoValue /\ header # <<>>
    /\ \E finalNewline \in BOOLEAN : csv_text' = Value(RenderTable(header, rows, finalNewline))
    /\ records' = Value(parse_csv(csv_text'.v))
    /\ UNCHANGED <<header, rows>> /\ UNCHANGED runVars

NextTable == AddColumn \/ AddRow \/ ParseTable

SpecTable == InitTable /\ [][NextTable]_vars

\* ------------------------------------------------------- the remote store

\* build_url(SOURCE_OWNER, SOURCE_REPO, SOURCE_FILE_PATH)
SourceUrl == "https://api.github.com/repos/Shazizan/data/contents/stocks_toy.csv"

\* build_url(DEST_OWNER, DEST_REPO, DEST_FILE_PATH)
DestUrl == "https://api.github.com/repos/Shazizan/pipeline-vault/contents/stocks_toy.json"

\* the html_url the store reports for the destination file
DestHtmlUrl == "https://github.com/Shazizan/pipeline-vault/blob/main/stocks_toy.json"

\* commit_message given by run_etl_pipeline
CommitMessage == "ETL Pipeline: Automated CSV to JSON conversion"

\* the bytes source files are made of: line feed, comma, "a", NUL and a byte
\* that is not UTF-8
SrcByteValues == {0, 10, 44, 97, 255}

SrcFiles ==
    {NoFile} \cup
    {File(b) : b \in UNION {[1..n -> SrcByteValues] : n \in 0..MaxSrcLen}}

\* what another actor writes to the destination: "x" or "y"
ActorContents == {<<120>>, <<121>>}

\* the content-hash token of a file: a function of its bytes alone, and
\* different for different bytes
BlobSha(bytes) == [blob |-> bytes]

HttpResponse(status, text, json) ==
    [t |-> "response", status |-> status, text |-> text, json |-> json]

\* requests.get or requests.put raising instead of returning
TransportFailure ==
    [t |-> "transport",
     error |-> [kind |-> "ConnectionError", message |-> [text |-> "connection refused"]]]

\* an answer the store can give to any request, whatever it holds
ServerError == HttpResponse(500, "Server Error", [message |-> "Server Error"])

\* GET /repos/{owner}/{repo}/contents/{path}
StoreGet(file) ==
    IF file = NoFile
    THEN HttpResponse(404, "Not Found", [message |-> "Not Found"])
    ELSE HttpResponse(200, "OK",
                      [content |-> B64Encode(file.bytes), sha |-> BlobSha(file.bytes)])

\* PUT /repos/{owner}/{repo}/contents/{path}: the file is created when none
\* exists and no token is given, replaced when the token given is the current
\* one, and the request is rejected otherwise
StorePut(file, body) ==
    LET new == B64Decode(body.content)
        done(status, text) ==
            [answer |-> HttpResponse(status, text,
                          [content |-> [html_url |-> DestHtmlUrl, sha |-> BlobSha(new)]]),
             file |-> File(new)]
        rejected(status, text) ==
            [answer |-> HttpResponse(status, text, [message |-> text]), file |-> file]
    IN  IF file = NoFile
        THEN IF "sha" \in DOMAIN body THEN rejected(409, "Conflict")
             ELSE done(201, "Created")
        ELSE IF "sha" \notin DOMAIN body THEN rejected(422, "sha wasn't supplied")
             ELSE IF body.sha = BlobSha(file.bytes) THEN done(200, "OK")
             ELSE rejected(409, "Conflict")

\* what a read can come back with
GetAnswers(file) == {StoreGet(file), ServerError, TransportFailure}

\* what a write can come back with, and the file it leaves
PutAnswers(file, body) ==
    {StorePut(file, body),
     [answer |-> ServerError, file |-> file],
     [answer |-> TransportFailure, file |-> file]}

\* ------------------------------------------------------------- the stages

Return(v) == [t |-> "return", v |-> v]

Raise(e) == [t |-> "raise", e |-> e]

\* extract_csv_from_github returning empty text where it should raise
extract_result_lenient(r) ==
    IF r.t = "transport" THEN Raise(r.error)
    ELSE IF r.status = 200 /\ decode_ok(r.json.content)
    THEN Return(decode_content(r.json.content))
    ELSE Return(<<>>)

\* extract_csv_from_github, given what requests.get came back with
extract_result(r) ==
    IF r.t = "transport" THEN Raise(r.error)
    ELSE IF r.status = 200
    THEN IF decode_ok(r.json.content)
         THEN Return(decode_content(r.json.content))
         ELSE Raise([kind |-> IF B64Valid(r.json.content) THEN "UnicodeDecodeError"
                              ELSE "binascii.Error",
                     message |-> [text |-> "invalid content"]])
    ELSE Raise([kind |-> "Exception",
                message |-> [prefix |-> "Failed to extract",
                             status |-> r.status, text |-> r.text]])

\* transform_csv_to_json; nulRejected tells whether the csv module of the
\* interpreter in use raises csv.Error on a NUL (before Python 3.11) or reads
\* it as a character
transform_result(csv_content, nulRejected) ==
    IF nulRejected /\ \E i \in 1..Len(csv_content) : csv_content[i] = "NUL"
    THEN Raise([kind |-> "csv.Error", message |-> [text |-> "line contains NUL"]])
    ELSE Return(to_json(parse_csv(csv_content)))

\* the payload without the sha, whatever the check answered
load_payload_no_sha(check, json_content, commit_message) ==
    [message |-> commit_message, content |-> encode_content(json_content),
     branch |-> "main"]

\* load_json_to_github: the payload of the PUT, given the answer to the check
load_payload(check, json_content, commit_message) ==
    LET base == [message |-> commit_message,
                 content |-> encode_content(json_content),
                 branch |-> "main"]
    IN  IF check.status = 200
        THEN [k \in DOMAIN base \cup {"sha"} |->
                 IF k = "sha" THEN check.json.sha ELSE base[k]]
        ELSE base

\* load_json_to_github taking 200 alone for success
load_result_200_only(r) ==
    IF r.status = 200 THEN Return(r.json)
    ELSE Raise([kind |-> "Exception",
                message |-> [prefix |-> "Failed to load",
                             status |-> r.status, text |-> r.text]])

\* load_json_to_github: what it makes of the answer to the PUT
load_result(r) ==
    IF r.status \in {200, 201} THEN Return(r.json)
    ELSE Raise([kind |-> "Exception",
                message |-> [prefix |-> "Failed to load",
                             status |-> r.status, text |-> r.text]])

\* ------------------------------------------------------- the orchestrator

\* an except clause that catches only the exceptions the stages raise themselves
report_failure_own_errors(e) ==
    IF e.kind = "Exception"
    THEN [t |-> "failure", message |-> e.message]
    ELSE [t |-> "unhandled", message |-> e.message]

\* run_etl_pipeline's "except Exception as e": the failure is printed
report_failure(e) == [t |-> "failure", message |-> e.message]

\* run_etl_pipeline's last print of the try block
report_success(res) == [t |-> "success", url |-> res.content.html_url]

\* a run that goes back to the existence check when the write fails
next_pc_retry(step, out) ==
    IF out.t = "raise" THEN (IF step = "put" THEN "check" ELSE "done")
    ELSE CASE step = "extract" -> "transform"
           [] step = "transform" -> "check"
           [] step = "check" -> "put"
           [] step = "put" -> "done"

\* where run_etl_pipeline goes after a step returned or raised: an exception
\* leaves the try block, a return leads to the next statement
next_pc(step, out) ==
    IF out.t = "raise" THEN "done"
    ELSE CASE step = "extract" -> "transform"
           [] step = "transform" -> "check"
           [] step = "check" -> "put"
           [] step = "put" -> "done"

Init ==
    /\ pc = "extract"
    /\ src \in SrcFiles
    /\ dest \in {NoFile} \cup {File(c) : c \in ActorContents}
    /\ dest0 = dest
    /\ csv_data = NoValue /\ json_data = NoValue /\ check_response = NoValue
    /\ payload = NoValue /\ response = NoValue /\ result = NoValue
    /\ read_response = NoValue /\ raised = NoValue /\ outcome = NoValue
    /\ reqs = <<>> /\ stages = <<>> /\ actorWrites = 0
    /\ header = <<>> /\ rows = <<>> /\ csv_text = NoValue /\ records = NoValue

\* the try block up to the return of extract_csv_from_github
Extract ==
    /\ pc = "extract"
    /\ \E r \in GetAnswers(src) :
          LET out == extract_result(r)
          IN  /\ read_response' = r
              /\ csv_data' = IF out.t = "return" THEN Value(out.v) ELSE NoValue
              /\ raised' = IF out.t = "raise" THEN Value(out.e) ELSE NoValue
              /\ outcome' = IF out.t = "raise" THEN report_failure(out.e) ELSE outcome
              /\ pc' = next_pc("extract", out)
    /\ reqs' = Append(reqs, [method |-> "GET", url |-> SourceUrl])
    /\ stages' = Append(stages, "Extract")
    /\ UNCHANGED <<src, dest, dest0, json_data, check_response, payload, response,
                   result, actorWrites>>
    /\ UNCHANGED tableVars

\* the call of transform_csv_to_json
Transform ==
    /\ pc = "transform"
    /\ \E nulRejected \in BOOLEAN :
          LET out == transform_result(csv_data.v, nulRejected)
          IN  /\ json_data' = IF out.t = "return" THEN Value(out.v) ELSE NoValue
              /\ raised' = IF out.t = "raise" THEN Value(out.e) ELSE NoValue
              /\ outcome' = IF out.t = "raise" THEN report_failure(out.e) ELSE outcome
              /\ pc' = next_pc("transform", out)
    /\ stages' = Append(stages, "Transform")
    /\ UNCHANGED <<src, dest, dest0, csv_data, check_response, payload, response,
                   result, read_response, reqs, actorWrites>>
    /\ UNCHANGED tableVars

\* load_json_to_github up to the PUT: the existence check and the payload
LoadCheck ==
    /\ pc = "check"
    /\ \E r \in GetAnswers(dest) :
          LET out == IF r.t = "transport" THEN Raise(r.error)
                     ELSE Return(load_payload(r, json_data.v, CommitMessage))
          IN  /\ check_response' = IF r.t = "transport" THEN NoValue ELSE r
              /\ payload' = IF out.t = "return" THEN Value(out.v) ELSE NoValue
              /\ raised' = IF out.t = "raise" THEN Value(out.e) ELSE NoValue
              /\ outcome' = IF out.t = "raise" THEN report_failure(out.e) ELSE outcome
              /\ pc' = next_pc("check", out)
    /\ reqs' = Append(reqs, [method |-> "GET", url |-> DestUrl])
    /\ stages' = Append(stages, "Load")
    /\ UNCHANGED <<src, dest, dest0, csv_data, json_data, response, result,
                   read_response, actorWrites>>
    /\ UNCHANGED tableVars

\* load_json_to_github from the PUT on, and the end of run_etl_pipeline
LoadPut ==
    /\ pc = "put"
    /\ \E a \in PutAnswers(dest, payload.v) :
          LET r == a.answer
              out == IF r.t = "transport" THEN Raise(r.error) ELSE load_result(r)
          IN  /\ response' = r
              /\ dest' = a.file
              /\ result' = IF out.t = "return" THEN Value(out.v) ELSE NoValue
              /\ raised' = IF out.t = "raise" THEN Value(out.e) ELSE NoValue
              /\ outcome' = IF out.t = "raise" THEN report_failure(out.e)
                            ELSE report_success(out.v)
              /\ pc' = next_pc("put", out)
    /\ reqs' = Append(reqs, [method |-> "PUT", url |-> DestUrl, json |-> payload.v])
    /\ UNCHANGED <<src, dest0, csv_data, json_data, check_response, payload,
                   read_response, stages, actorWrites>>
    /\ UNCHANGED tableVars

actorUnchanged ==
    /\ UNCHANGED <<pc, src, dest0, csv_data, json_data, check_response, payload,
                   response, result, read_response, raised, outcome, reqs, stages>>
    /\ UNCHANGED tableVars

\* another actor creates the destination file between the check and the write
ActorCreate ==
    /\ pc = "put" /\ actorWrites < MaxActorWrites /\ dest = NoFile
    /\ \E c \in ActorContents : dest' = File(c)
    /\ actorWrites' = actorWrites + 1
    /\ actorUnchanged

\* another actor replaces the destination file's content
ActorUpdate ==
    /\ pc = "put" /\ actorWrites < MaxActorWrites /\ dest # NoFile
    /\ \E c \in ActorContents \ {dest.bytes} : dest' = File(c)
    /\ actorWrites' = actorWrites + 1
    /\ actorUnchanged

\* another actor deletes the destination file
ActorDelete ==
    /\ pc = "put" /\ actorWrites < MaxActorWrites /\ dest # NoFile
    /\ dest' = NoFile
    /\ actorWrites' = actorWrites + 1
    /\ actorUnchanged

Next == Extract \/ Transform \/ LoadCheck \/ LoadPut
        \/ ActorCreate \/ ActorUpdate \/ ActorDelete

Spec == Init /\ [][Next]_vars

\* ------------------------------------------------------------- the claims

\* the source read came back with status 200 and a payload that decodes
ExtractInputGood ==
    /\ read_response.t = "response"
    /\ read_response.status = 200
    /\ decode_ok(read_response.json.content)

\* Extract was invoked and did not get a good answer
ExtractFailed == Len(stages) >= 1 /\ ~ExtractInputGood

\* the stage invoked last raised, and it is Transform
TransformFailed == raised.t = "value" /\ stages # <<>> /\ stages[Len(stages)] = "Transform"

NoDestRequest == \A i \in 1..Len(reqs) : reqs[i].url # DestUrl

\* C1: when Extract fails (the source read does not return 200) or Transform
\* fails, no later stage is invoked: no existence check and no PUT is issued
\* to the destination, and the destination file is as it was.
C1_NoStageAfterFailure ==
    /\ ExtractFailed =>
          stages = <<"Extract">> /\ Len(reqs) = 1 /\ NoDestRequest /\ dest = dest0
    /\ TransformFailed =>
          stages = <<"Extract", "Transform">> /\ NoDestRequest /\ dest = dest0

C1_Witness ==
    /\ pc = "done" /\ ExtractFailed
    /\ read_response.t = "response" /\ read_response.status = 404
    /\ dest # NoFile /\ reqs = <<[method |-> "GET", url |-> SourceUrl]>>

\* C2: the payload of every PUT carries a sha exactly when the existence
\* check before it returned 200, and that sha is the one the check returned.
C2_ShaIffCheckFound ==
    \A i \in 1..Len(reqs) :
        reqs[i].method = "PUT" =>
            /\ check_response.t = "response"
            /\ reqs[i].url = DestUrl
            /\ ("sha" \in DOMAIN reqs[i].json) <=> (check_response.status = 200)
            /\ ("sha" \in DOMAIN reqs[i].json) => reqs[i].json.sha = check_response.json.sha

C2_Witness ==
    /\ Len(reqs) = 3 /\ reqs[3].method = "PUT"
    /\ check_response.status = 200
    /\ "sha" \in DOMAIN reqs[3].json
    /\ reqs[3].json.sha = BlobSha(dest0.bytes)

\* the write, as the Loader's step sees it, was not applied and ended the run
\* in failure without another request
WriteRefused ==
    /\ dest' = dest
    /\ ~(response'.t = "response" /\ response'.status \in {200, 201})
    /\ outcome'.t = "failure"
    /\ pc' = "done"
    /\ Len(reqs') = 3

\* the payload's token is the one the destination has now
TokenCurrent ==
    IF dest = NoFile THEN "sha" \notin DOMAIN payload.v
    ELSE "sha" \in DOMAIN payload.v /\ payload.v.sha = BlobSha(dest.bytes)

\* C3 as stated: whenever another actor modified the destination between the
\* check and the write, the write is rejected, the actor's content stays, no
\* second check or write is issued and the run ends in failure.
C3_AnyInterferenceRejected ==
    [][(LoadPut /\ actorWrites > 0) => WriteRefused]_vars

\* C3, amended: when another actor's modifications leave the destination in
\* a state the payload's token does not match, the write is rejected, the
\* actor's content stays, no second check or write is issued and the run ends
\* in failure.
C3_StaleWriteRejected ==
    [][(LoadPut /\ actorWrites > 0 /\ ~TokenCurrent) => WriteRefused]_vars

C3_Witness ==
    /\ pc = "done" /\ actorWrites > 0
    /\ check_response.t = "response" /\ check_response.status = 200
    /\ response.t = "response" /\ response.status = 409
    /\ dest # NoFile /\ dest # dest0
    /\ outcome.t = "failure" /\ Len(reqs) = 3

\* the stage a failure message names
StageNamed(message) ==
    IF "prefix" \notin DOMAIN message THEN "none"
    ELSE IF message.prefix = "Failed to extract" THEN "Extract"
    ELSE IF message.prefix = "Failed to load" THEN "Load"
    ELSE "none"

\* C4: the run ends with a success carrying the destination URL, reached only
\* after Extract, Transform and Load succeeded in that order, or with the
\* first failure, tagged with the stage that produced it.
C4_OutcomeTaggedWithStage ==
    pc = "done" =>
        \/ /\ outcome.t = "success" /\ outcome.url = DestHtmlUrl
           /\ stages = <<"Extract", "Transform", "Load">>
           /\ raised.t = "none"
        \/ /\ outcome.t = "failure" /\ raised.t = "value"
           /\ StageNamed(outcome.message) = stages[Len(stages)]

\* the text is empty or its first line is blank
NoHeaderRow(text) == text = <<>> \/ text[1] = "\n"

\* C5: Transform fails with MalformedInputError when its input is empty or
\* has no header row, and returns no document for it.
C5_MalformedInputRejected ==
    (Len(stages) >= 2 /\ csv_data.t = "value" /\ NoHeaderRow(csv_data.v)) =>
        /\ raised.t = "value" /\ raised.v.kind = "MalformedInputError"
        /\ json_data.t = "none"
        /\ stages = <<"Extract", "Transform">>

\* the failure of a read that did not return 200: it carries status and body
RemoteReadError(e, r) ==
    /\ e.kind = "Exception"
    /\ e.message = [prefix |-> "Failed to extract", status |-> r.status, text |-> r.text]

\* C6 as stated: fetch returns the decoded text exactly when the source read
\* returns 200; for every other status it fails with a RemoteReadError
\* carrying the status and the body, without another read or a partial result.
C6_ReturnsIffStatus200 ==
    read_response.t = "response" =>
        /\ (csv_data.t = "value") <=> (read_response.status = 200)
        /\ read_response.status # 200 =>
              /\ raised.t = "value" /\ RemoteReadError(raised.v, read_response)
              /\ Len(reqs) = 1

\* C6, amended: fetch returns text only when the source read returns 200, and
\* then it returns the file's bytes decoded if they are UTF-8 and fails with a
\* decoding error if they are not; for every other status it fails with a
\* RemoteReadError carrying the status and the body, without another read or
\* a partial result.
C6_FetchResult ==
    read_response.t = "response" =>
        /\ csv_data.t = "value" =>
              read_response.status = 200 /\ csv_data.v = Utf8Decode(src.bytes)
        /\ (read_response.status = 200 /\ Utf8Valid(src.bytes)) => csv_data.t = "value"
        /\ (read_response.status = 200 /\ ~Utf8Valid(src.bytes)) =>
              /\ csv_data.t = "none" /\ raised.t = "value"
              /\ raised.v.kind = "UnicodeDecodeError"
              /\ Len(reqs) = 1 /\ pc = "done"
        /\ read_response.status # 200 =>
              /\ csv_data.t = "none"
              /\ raised.t = "value" /\ RemoteReadError(raised.v, read_response)
              /\ Len(reqs) = 1 /\ pc = "done"

C6_Witness ==
    /\ read_response.t = "response" /\ read_response.status = 404
    /\ raised.t = "value" /\ raised.v.message.status = 404
    /\ raised.v.message.text = "Not Found"
    /\ csv_data.t = "none" /\ pc = "done"

\* C7: upload returns the write's result payload, with the file's URL,
\* exactly when the PUT returns 200 or 201; for every other status it fails
\* with a RemoteWriteError carrying the status and the body, whatever the
\* existence check returned.
C7_UploadResult ==
    response.t = "response" =>
        /\ (result.t = "value") <=> (response.status \in {200, 201})
        /\ result.t = "value" =>
              result.v = response.json /\ result.v.content.html_url = DestHtmlUrl
        /\ response.status \notin {200, 201} =>
              /\ raised.t = "value" /\ raised.v.kind = "Exception"
              /\ raised.v.message = [prefix |-> "Failed to load",
                                     status |-> response.status, text |-> response.text]

C7_Witness ==
    /\ check_response.t = "response" /\ check_response.status = 500
    /\ response.t = "response" /\ response.status = 201
    /\ result.t = "value" /\ result.v.content.html_url = DestHtmlUrl

\* the run is at a statement whose input is there, so that it can be executed
CanStep ==
    \/ pc = "extract"
    \/ pc = "transform" /\ csv_data.t = "value"
    \/ pc = "check" /\ json_data.t = "value"
    \/ pc = "put" /\ payload.t = "value"

\* C8: every run ends having reported success or failure: until it has, its
\* next statement can be executed, and no failure of a stage, of whatever
\* kind, leaves the orchestrator unhandled.
C8_RunEndsReported ==
    /\ outcome.t \in {"none", "success", "failure"}
    /\ pc = "done" => outcome.t \in {"success", "failure"}
    /\ pc # "done" => outcome.t = "none" /\ CanStep

C8_Witness ==
    /\ pc = "done" /\ outcome.t = "failure"
    /\ raised.t = "value" /\ raised.v.kind = "ConnectionError"
    /\ stages = <<"Extract", "Transform", "Load">>

\* the column names differ and no data row is written as a blank line
ValidTable ==
    /\ \A i, j \in 1..Len(header) : i # j => header[i] # header[j]
    /\ \A r \in 1..Len(rows) : Join(<<",">>, rows[r]) # <<>>

\* C9: for a header row followed by N data rows, parse_csv yields N records,
\* the i-th holding the values of the i-th data row under the header's names.
C9_ParsePreservesRows ==
    (records.t = "value" /\ ValidTable) =>
        /\ Len(records.v) = Len(rows)
        /\ \A i \in 1..Len(rows) :
              records.v[i] = [j \in 1..Len(header) |->
                                 [key |-> PyStr(header[j]), value |-> PyStr(rows[i][j])]]

C9_Witness ==
    /\ records.t = "value" /\ ValidTable
    /\ Len(header) = 2 /\ Len(rows) = 2 /\ rows[1] # rows[2]
    /\ Len(records.v) = 2

\* the requests of a run, in order
RequestPlan ==
    << [method |-> "GET", url |-> SourceUrl],
       [method |-> "GET", url |-> DestUrl],
       [method |-> "PUT", url |-> DestUrl] >>

\* C10: the requests of a run are a prefix of: read source, read destination,
\* write destination; and once the existence check has returned a status,
\* whichever it is, the write is issued exactly once.
C10_RequestSequence ==
    /\ Len(reqs) <= Len(RequestPlan)
    /\ \A i \in 1..Len(reqs) :
          reqs[i].method = RequestPlan[i].method /\ reqs[i].url = RequestPlan[i].url
    /\ (pc = "done" /\ check_response.t = "response") => Len(reqs) = 3

C10_Witness ==
    /\ pc = "done" /\ Len(reqs) = 3
    /\ check_response.t = "response" /\ check_response.status = 500
    /\ response.t = "response" /\ response.status = 422

====
